---- MODULE Spec2Model ----
(***************************************************************************)
(* Model of the Cira scripts:                                              *)
(*   scripts/llm_label_causal_openai.py     call_openai, main              *)
(*   scripts/llm_label_causal_responses.py  parse_output, call_responses,  *)
(*                                          main                           *)
(*   scripts/analyze_h2h.py                 kripp_alpha_nominal, main      *)
(*   scripts/score_llm_vs_gold.py           to01, the scoring run          *)
(*                                                                         *)
(* Numbers that are floats in the code are kept exact: a confidence and an *)
(* alpha are each a fraction in lowest terms, or NaN.                      *)
(***************************************************************************)
EXTENDS Integers, Sequences, FiniteSets, TLC

VARIABLES
    script,       \* which script runs: "openai" or "responses"
    max_retries,  \* call_openai's max_retries / call_responses' retries
    attempt,      \* the loop variable of the retry loop (0-based)
    r,            \* the response object of the latest requests.post
    last_status,  \* call_openai's last_status (None in call_responses)
    last_body,    \* call_openai's last_body / call_responses' last
    cpc,          \* position in the call: idle, loop, sleep, returned, raised
    ret,          \* the (label, confidence) pair the call returned
    exc,          \* the exception the call raised
    events,       \* log of the requests sent and the sleeps taken by the call
    statusLog,    \* status codes of the replies received by the call, in order
    df,           \* main: the "text" column of the input frame
    i,            \* main: number of rows of df already taken by the loop
    out_rows,     \* main: out_rows / out
    mpc,          \* main: position in the batch loop
    outcomes,     \* main: per taken row, what happened to it
    X,            \* analyze_h2h: the rating matrix, item -> rater -> cell
    pairIdx,      \* analyze_h2h: number of rater pairs already taken
    sub,          \* analyze_h2h: the two-column table given to kripp_alpha_nominal
    alpha,        \* analyze_h2h: what kripp_alpha_nominal returned for sub
    rows,         \* analyze_h2h: rows
    out,          \* analyze_h2h: the sorted table
    hpc,          \* analyze_h2h: position in main
    gold,         \* score_llm_vs_gold: the gold frame, rows (text, label)
    pred,         \* score_llm_vs_gold: the prediction frame, rows (text, model_label)
    merged,       \* score_llm_vs_gold: merged, rows (text, y_true, y_pred)
    metrics,      \* score_llm_vs_gold: acc, prec, rec, f1, tn, fp, fn, tp
    scoreExc,     \* score_llm_vs_gold: the exception that ended the run
    written,      \* score_llm_vs_gold: the rows written to out_csv
    spc,          \* score_llm_vs_gold: position in the run
    raw,          \* to01: its argument x
    norm          \* to01: what it returned

callVars == <<script, max_retries, attempt, r, last_status, last_body, cpc, ret,
              exc, events, statusLog>>
mainVars == <<df, i, out_rows, mpc, outcomes>>
h2hVars == <<X, pairIdx, sub, alpha, rows, out, hpc>>
scoreVars == <<gold, pred, merged, metrics, scoreExc, written, spc, raw, norm>>
vars == <<script, max_retries, attempt, r, last_status, last_body, cpc, ret,
          exc, events, statusLog, df, i, out_rows, mpc, outcomes,
          X, pairIdx, sub, alpha, rows, out, hpc,
          gold, pred, merged, metrics, scoreExc, written, spc, raw, norm>>

\* ---------------------------------------------------------------- bounds
MaxRetries == 3
MaxRows == 2
MaxItems == 3
MaxBinaryItems == 5
MaxTernaryItems == 3
MaxQuaternaryItems == 2
MaxFullItems == 4
MaxPad == 1
MaxGold == 2
MaxPred == 2

\* ------------------------------------------------------ program constants
DefaultRetries == 3
UnitDelay == 1
BodyLimitOpenai == 300
BodyLimitResponses == 400
DefaultConfidence == 5
DefaultLabelResponses == 0

Min(a, b) == IF a <= b THEN a ELSE b

\* ----------------------------------------------------------------- floats
\* A Python float, kept exact: NaN, or the fraction num/den in lowest terms
\* with den > 0.
RECURSIVE Gcd(_, _)
Gcd(a, b) == IF b = 0 THEN a ELSE Gcd(b, a % b)
Abs(a) == IF a < 0 THEN -a ELSE a
FNaN == [nan |-> TRUE, num |-> 0, den |-> 1]
Frac(n, d) ==
    LET g == Gcd(Abs(n), Abs(d))
        sgn == IF d < 0 THEN -1 ELSE 1
    IN  [nan |-> FALSE, num |-> sgn * (n \div g), den |-> sgn * (d \div g)]
Zero == Frac(0, 1)
One == Frac(1, 1)
FSub(x, y) ==
    IF x.nan \/ y.nan THEN FNaN
    ELSE Frac(x.num * y.den - y.num * x.den, x.den * y.den)
\* x / y with y # 0
FDiv(x, y) == IF x.nan \/ y.nan THEN FNaN ELSE Frac(x.num * y.den, x.den * y.num)
\* x < y on floats: FALSE when either is NaN
FLess(x, y) == ~x.nan /\ ~y.nan /\ x.num * y.den < y.num * x.den
\* Python's max(a, b) and min(a, b): the first argument unless the second is
\* strictly greater (smaller); a comparison with NaN is false
PyMax(a, b) == IF FLess(a, b) THEN b ELSE a
PyMin(a, b) == IF FLess(b, a) THEN b ELSE a

\* ------------------------------------------------------------ JSON values
\* A JSON value of a reply object's field: t is its type, n its number in
\* tenths (0 when it has none).  "intstr" is a string such as "1", "floatstr"
\* a string such as "0.7", "nanstr" the string "nan", "badstr" any other
\* string.
JV(t, n) == [t |-> t, n |-> n]
JAbsent == JV("absent", 0)
JNull == JV("null", 0)

\* Python's int(x) and float(x); ok = FALSE when they raise.
Raised == [ok |-> FALSE, v |-> 0]
Value(v) == [ok |-> TRUE, v |-> v]
FloatRaised == [ok |-> FALSE, f |-> FNaN]
FloatValue(f) == [ok |-> TRUE, f |-> f]

\* whole part of n tenths, rounded towards zero
Trunc10(n) == IF n >= 0 THEN n \div 10 ELSE -((-n) \div 10)

PyInt(x) ==
    CASE x.t = "int" -> Value(Trunc10(x.n))
      [] x.t = "float" -> Value(Trunc10(x.n))
      [] x.t = "intstr" -> Value(Trunc10(x.n))
      [] OTHER -> Raised

\* float(x): float("nan") is NaN
PyFloat(x) ==
    CASE x.t \in {"int", "float", "intstr", "floatstr"} -> FloatValue(Frac(x.n, 10))
      [] x.t = "nanstr" -> FloatValue(FNaN)
      [] OTHER -> FloatRaised

\* ------------------------------------------------------------- contents
\* The text a reply envelope carries.  k: "none" (JSON null, no string),
\* "empty" (""), "text" (a string that is not JSON), "array" (a JSON array),
\* "object" (a JSON object with the two fields below, either may be absent).
Content(k, label, confidence) == [k |-> k, label |-> label, confidence |-> confidence]
Obj(label, confidence) == Content("object", label, confidence)
CNone == Content("none", JAbsent, JAbsent)
CEmpty == Content("empty", JAbsent, JAbsent)
CText == Content("text", JAbsent, JAbsent)
CArray == Content("array", JAbsent, JAbsent)

\* Python truthiness of a content value
Truthy(c) == c.k \notin {"none", "empty"}

\* ------------------------------------------------------- reply envelopes
\* The JSON body of a reply, as r.json() gives it.  json = FALSE: the body is
\* no JSON at all.  Each key of the envelope may be absent (has = FALSE).
\*   choices      data["choices"][k]["message"]["content"], a content
\*   output_text  data["output_text"], a content
\*   output       data["output"]: absent, a dict (keys text, choices) or a
\*                list of typed items
\* A chunk is one entry of a content list: {"text": ...} when has_text.
NoField == [has |-> FALSE, v |-> CNone]
Field(c) == [has |-> TRUE, v |-> c]
NoList == [has |-> FALSE, list |-> <<>>]
List(l) == [has |-> TRUE, list |-> l]
Chunk(c) == [has_text |-> TRUE, text |-> c]
OtherChunk == [has_text |-> FALSE, text |-> CNone]
Item(type, content) == [type |-> type, content |-> content]

OutputAbsent == [t |-> "absent", text |-> NoField, choices |-> NoList, items |-> <<>>]
OutputDict(text, choices) == [t |-> "dict", text |-> text, choices |-> choices, items |-> <<>>]
OutputList(items) == [t |-> "list", text |-> NoField, choices |-> NoList, items |-> items]

Data(choices, output_text, output) ==
    [json |-> TRUE, choices |-> choices, output_text |-> output_text, output |-> output]
NotJson == [json |-> FALSE, choices |-> NoList, output_text |-> NoField, output |-> OutputAbsent]
EmptyObject == Data(NoList, NoField, OutputAbsent)

\* the envelope shapes the two services are known to use
Completion(c) == Data(List(<<c>>), NoField, OutputAbsent)
ShapeOutputText(c) == Data(NoList, Field(c), OutputAbsent)
ShapeOutputDotText(c) == Data(NoList, NoField, OutputDict(Field(c), NoList))
ShapeOutputChoices(c) == Data(NoList, NoField, OutputDict(NoField, List(<<(<<Chunk(c)>>)>>)))
ShapeOutputItems(c) ==
    Data(NoList, NoField,
         OutputList(<<Item("reasoning", <<>>), Item("message", <<Chunk(c)>>)>>))

\* ---------------------------------------------------------- parse_output
Found(c) == [ok |-> TRUE, v |-> c]
NotFound == [ok |-> FALSE, v |-> CNone]

\* 1) if "output_text" in data and data["output_text"]
Strategy1(data) ==
    IF data.output_text.has /\ Truthy(data.output_text.v)
    THEN Found(data.output_text.v) ELSE NotFound

\* 2) ot = data.get("output", {}); dict with a truthy "text"
Strategy2(data) ==
    IF data.output.t = "dict" /\ data.output.text.has /\ Truthy(data.output.text.v)
    THEN Found(data.output.text.v) ELSE NotFound

\* 3) data.get("output", {}).get("choices", []): a list output has no .get,
\*    the AttributeError is swallowed by the bare except
Strategy3(data) ==
    IF data.output.t = "dict" /\ data.output.choices.has
          /\ Len(data.output.choices.list) > 0
    THEN LET content == data.output.choices.list[1]
         IN  IF Len(content) > 0 /\ content[1].has_text
             THEN Found(content[1].text) ELSE NotFound
    ELSE NotFound

\* index of the first chunk of a content list that has a "text" key, 0 if none
FirstText(content) ==
    IF \E j \in 1..Len(content) : content[j].has_text
    THEN CHOOSE j \in 1..Len(content) :
            content[j].has_text /\ \A h \in 1..(j - 1) : ~content[h].has_text
    ELSE 0

\* mutant: only the first item of the output list is looked at
Strategy4_FirstItemOnly(data) ==
    IF data.output.t = "list" /\ Len(data.output.items) > 0
          /\ data.output.items[1].type = "message"
          /\ FirstText(data.output.items[1].content) > 0
    THEN Found(data.output.items[1].content[FirstText(data.output.items[1].content)].text)
    ELSE NotFound

\* 4) out = data.get("output", []); the first message item holding a text
\*    chunk.  Iterating a non-empty dict yields its keys, strings without
\*    .get: the AttributeError is swallowed too.
Strategy4(data) ==
    LET items == data.output.items
        hit(j) == items[j].type = "message" /\ FirstText(items[j].content) > 0
    IN  IF data.output.t = "list" /\ \E j \in 1..Len(items) : hit(j)
        THEN LET j == CHOOSE j \in 1..Len(items) :
                         hit(j) /\ \A h \in 1..(j - 1) : ~hit(h)
             IN  Found(items[j].content[FirstText(items[j].content)].text)
        ELSE NotFound

\* mutant: output.text is looked at before output_text
parse_output_OutputFirst(data) ==
    CASE Strategy2(data).ok -> Strategy2(data)
      [] Strategy1(data).ok -> Strategy1(data)
      [] Strategy3(data).ok -> Strategy3(data)
      [] Strategy4(data).ok -> Strategy4(data)
      [] OTHER -> NotFound

\* parse_output: the strategies in order; ok = FALSE is the ValueError
parse_output(data) ==
    CASE Strategy1(data).ok -> Strategy1(data)
      [] Strategy2(data).ok -> Strategy2(data)
      [] Strategy3(data).ok -> Strategy3(data)
      [] Strategy4(data).ok -> Strategy4(data)
      [] OTHER -> NotFound

\* ------------------------------------------------------- one 200 reply
\* What one iteration of the retry loop does with a status-200 reply:
\*   kind "return" with (label, conf), kind "raise" with the exception's
\*   type, or kind "retry" (fall through to the sleep).
Return(label, conf) == [kind |-> "return", label |-> label, conf |-> conf, type |-> "none"]
Raise(type) == [kind |-> "raise", label |-> 0, conf |-> Zero, type |-> type]
Retry == [kind |-> "retry", label |-> 0, conf |-> Zero, type |-> "none"]

\* label = 1 if label == 1 else 0
CoerceLabel(n) == IF n = 1 THEN 1 ELSE 0
\* conf = min(max(conf, 0.0), 1.0)
ClampOpenai(conf) == PyMin(PyMax(conf, Zero), One)
\* max(0.0, min(1.0, p))
ClampResponses(p) == PyMax(Zero, PyMin(One, p))

\* obj.get(key, default)
Get(field, default) == IF field.t = "absent" THEN default ELSE field

\* call_openai, lines 65-77: r.json() is outside the try, everything after it
\* is inside and any exception there is swallowed.
Openai200(data) ==
    IF ~data.json THEN Raise("JSONDecodeError")
    ELSE IF ~(data.choices.has /\ Len(data.choices.list) > 0) THEN Retry
    ELSE LET content == data.choices.list[1]
             label == PyInt(Get(content.label, JNull))
             conf == PyFloat(Get(content.confidence, JV("float", DefaultConfidence)))
         IN  IF content.k # "object" THEN Retry
             ELSE IF ~label.ok THEN Retry
             ELSE IF ~conf.ok THEN Retry
             ELSE Return(CoerceLabel(label.v), ClampOpenai(conf.f))

\* call_responses, lines 55-60: nothing is caught.
Responses200(data) ==
    IF ~data.json THEN Raise("JSONDecodeError")
    ELSE LET found == parse_output(data)
             content == found.v
             y == PyInt(Get(content.label, JV("int", 10 * DefaultLabelResponses)))
             p == PyFloat(Get(content.confidence, JV("float", DefaultConfidence)))
         IN  IF ~found.ok THEN Raise("ValueError")
             ELSE IF content.k = "none" THEN Raise("TypeError")
             ELSE IF content.k \in {"empty", "text"} THEN Raise("JSONDecodeError")
             ELSE IF content.k = "array" THEN Raise("AttributeError")
             ELSE IF ~y.ok THEN Raise(IF Get(content.label, JNull).t = "null"
                                      THEN "TypeError" ELSE "ValueError")
             ELSE IF ~p.ok THEN Raise(IF Get(content.confidence, JNull).t = "null"
                                      THEN "TypeError" ELSE "ValueError")
             ELSE Return(CoerceLabel(y.v), ClampResponses(p.f))

Handle200(s, data) == IF s = "openai" THEN Openai200(data) ELSE Responses200(data)

\* ------------------------------------------------------------- replies
\* r.text is the body: its JSON reading and its length in characters.
\* r.text[:n] keeps the first n characters.
Text(data, len) == [json |-> data, len |-> len]
EmptyText == Text(NotJson, 0)
Prefix(text, n) == Text(text.json, Min(text.len, n))
Reply(status_code, text) == [status_code |-> status_code, text |-> text]
NoResponse == Reply(0, EmptyText)
NoneStatus == 0

LabelValues ==
    {JAbsent, JNull, JV("int", 10), JV("int", 0), JV("int", -10), JV("int", 20),
     JV("float", 19), JV("intstr", 10), JV("floatstr", 10), JV("badstr", 0)}
ConfidenceValues ==
    {JAbsent, JNull, JV("float", -5), JV("int", 0), JV("float", 3), JV("int", 10),
     JV("float", 15), JV("floatstr", 7), JV("nanstr", 0), JV("badstr", 0)}
Objects ==
    {Obj(l, JV("float", 3)) : l \in LabelValues}
        \cup {Obj(JV("int", 10), c) : c \in ConfidenceValues}
        \cup {Obj(JV("int", 0), JAbsent), Obj(JAbsent, JAbsent), Obj(JAbsent, JV("float", 15)),
              Obj(JV("int", -10), JV("float", 15)), Obj(JV("intstr", 10), JV("floatstr", 7))}
Contents == Objects \cup {CNone, CEmpty, CText, CArray}
FewContents ==
    {Obj(JV("int", 10), JV("float", 15)), Obj(JV("int", 0), JAbsent),
     Obj(JAbsent, JV("float", 3)), CEmpty, CText}
Good == Obj(JV("int", 10), JV("float", 7))
Other == Obj(JV("int", 0), JV("float", 3))

\* the bodies the simulated service answers with
Bodies ==
    {NotJson, EmptyObject, Data(List(<<>>), NoField, OutputAbsent)}
        \cup {Completion(c) : c \in Contents}
        \cup {ShapeOutputText(c) : c \in Contents}
        \cup {ShapeOutputDotText(c) : c \in FewContents}
        \cup {ShapeOutputChoices(c) : c \in FewContents}
        \cup {ShapeOutputItems(c) : c \in FewContents}
        \cup {Data(NoList, Field(c), OutputDict(Field(Good), NoList)) : c \in {CEmpty, CText, Other}}
        \cup {Data(NoList, Field(c), OutputList(<<Item("message", <<Chunk(Good)>>)>>))
                : c \in {CText, Other}}
        \cup {Data(NoList, NoField, OutputDict(Field(Other), List(<<(<<Chunk(Good)>>)>>)))}
        \cup {Data(NoList, NoField, OutputDict(Field(c), List(<<(<<Chunk(Good)>>)>>)))
                : c \in {CEmpty, CText}}
        \cup {Data(NoList, NoField, OutputDict(NoField, l))
                : l \in {List(<<>>), List(<<(<<>>)>>), List(<<(<<OtherChunk, Chunk(Good)>>)>>)}}
        \cup {Data(NoList, NoField, OutputList(l))
                : l \in {<<>>, <<Item("reasoning", <<Chunk(CText)>>)>>,
                         <<Item("message", <<OtherChunk>>), Item("message", <<OtherChunk, Chunk(Good)>>)>>}}
BodyLengths == {250, 350, 450}
ErrorStatuses == {429, 500}
Replies ==
    {Reply(200, Text(d, n)) : d \in Bodies, n \in BodyLengths}
        \cup {Reply(st, Text(d, n)) : st \in ErrorStatuses, d \in {NotJson, EmptyObject}, n \in BodyLengths}

\* ------------------------------------------------------------ the call
Scripts == {"openai", "responses"}
BodyLimit(s) == IF s = "openai" THEN BodyLimitOpenai ELSE BodyLimitResponses

NoRet == [label |-> 0, conf |-> Zero]
Message(has_status, status, body) == [has_status |-> has_status, status |-> status, body |-> body]
Exception(type, msg) == [type |-> type, msg |-> msg]
NoExc == Exception("none", Message(FALSE, NoneStatus, EmptyText))

Event(e, n) == [e |-> e, n |-> n]

\* entry of call_openai / call_responses: last_status = None, last_body = ""
CallEntry(s, k) ==
    /\ script' = s
    /\ max_retries' = k
    /\ attempt' = 0
    /\ r' = NoResponse
    /\ last_status' = NoneStatus
    /\ last_body' = EmptyText
    /\ cpc' = "loop"
    /\ ret' = NoRet
    /\ exc' = NoExc
    /\ events' = <<>>
    /\ statusLog' = <<>>

\* mutant: the delay is computed from the 0-based loop variable
SleepSeconds_ZeroBased(a) == UnitDelay * a

\* time.sleep(1.0 * (attempt + 1))
SleepSeconds(a) == UnitDelay * (a + 1)

\* mutant: one attempt more than max_retries
LoopContinues_OneMore(a, k) == a <= k

\* mutant: the loop stops one iteration early
LoopContinues_OneShort(a, k) == a < k - 1

\* for attempt in range(max_retries)
LoopContinues(a, k) == a < k

\* what the script keeps of a reply: call_openai keeps status and body,
\* call_responses the body only
KeptStatus(s, reply) == IF s = "openai" THEN reply.status_code ELSE NoneStatus
KeptBody(s, reply) == Prefix(reply.text, BodyLimit(s))

\* the body of the loop up to the sleep: the request, the reply, its handling
Post(replies) ==
    /\ cpc = "loop"
    /\ LoopContinues(attempt, max_retries)
    /\ \E reply \in replies :
         LET h == IF reply.status_code = 200
                  THEN Handle200(script, reply.text.json) ELSE Retry
         IN  /\ r' = reply
             /\ last_status' = KeptStatus(script, reply)
             /\ last_body' = KeptBody(script, reply)
             /\ statusLog' = Append(statusLog, reply.status_code)
             /\ events' = Append(events, Event("post", attempt + 1))
             /\ cpc' = CASE h.kind = "return" -> "returned"
                         [] h.kind = "raise" -> "raised"
                         [] OTHER -> "sleep"
             /\ ret' = IF h.kind = "return" THEN [label |-> h.label, conf |-> h.conf] ELSE ret
             /\ exc' = IF h.kind = "raise"
                       THEN Exception(h.type, Message(FALSE, NoneStatus, EmptyText))
                       ELSE exc
    /\ UNCHANGED <<script, max_retries, attempt>>

\* requests.post itself raises (timeout=60, connection error): nothing in
\* either call catches it
PostRaises ==
    /\ cpc = "loop"
    /\ LoopContinues(attempt, max_retries)
    /\ events' = Append(events, Event("post", attempt + 1))
    /\ cpc' = "raised"
    /\ exc' = Exception("RequestException", Message(FALSE, NoneStatus, EmptyText))
    /\ UNCHANGED <<script, max_retries, attempt, r, last_status, last_body, ret, statusLog>>

\* time.sleep(...) at the end of the loop body, then the next iteration
Sleep ==
    /\ cpc = "sleep"
    /\ events' = Append(events, Event("sleep", SleepSeconds(attempt)))
    /\ attempt' = attempt + 1
    /\ cpc' = "loop"
    /\ UNCHANGED <<script, max_retries, r, last_status, last_body, ret, exc, statusLog>>

\* the raise after the loop
FinalError(s, status, body) ==
    IF s = "openai"
    THEN Exception("RuntimeError", Message(TRUE, status, body))
    ELSE Exception("RuntimeError", Message(FALSE, NoneStatus, body))

Exhausted ==
    /\ cpc = "loop"
    /\ ~LoopContinues(attempt, max_retries)
    /\ cpc' = "raised"
    /\ exc' = FinalError(script, last_status, last_body)
    /\ UNCHANGED <<script, max_retries, attempt, r, last_status, last_body, ret, events, statusLog>>

\* ----------------------------------------------------- idle components
MainIdle ==
    /\ df = <<>>
    /\ i = 0
    /\ out_rows = <<>>
    /\ mpc = "idle"
    /\ outcomes = <<>>

H2HIdle ==
    /\ X = <<>>
    /\ pairIdx = 0
    /\ sub = <<>>
    /\ alpha = FNaN
    /\ rows = <<>>
    /\ out = <<>>
    /\ hpc = "idle"

\* A raw cell of a label column as read_csv gives it: NaN, a number (n in
\* tenths) or a string (s, its characters).
RawNaN == [k |-> "nan", n |-> 0, s |-> <<>>]
RawNum(n) == [k |-> "num", n |-> n, s |-> <<>>]
RawStr(chars) == [k |-> "str", n |-> 0, s |-> chars]
\* What to01 returns: np.nan or an int.
Missing == [missing |-> TRUE, v |-> 0]
Label(v) == [missing |-> FALSE, v |-> v]
NoMetrics ==
    [acc |-> FNaN, prec |-> FNaN, rec |-> FNaN, f1 |-> FNaN,
     tn |-> 0, fp |-> 0, fn |-> 0, tp |-> 0]

ScoreIdle ==
    /\ gold = <<>>
    /\ pred = <<>>
    /\ merged = <<>>
    /\ metrics = NoMetrics
    /\ scoreExc = "none"
    /\ written = <<>>
    /\ spc = "idle"
    /\ raw = RawNaN
    /\ norm = Missing

\* ------------------------------------------- specification: a single call
Init ==
    /\ script \in Scripts
    /\ max_retries \in 0..MaxRetries
    /\ attempt = 0
    /\ r = NoResponse
    /\ last_status = NoneStatus
    /\ last_body = EmptyText
    /\ cpc = "loop"
    /\ ret = NoRet
    /\ exc = NoExc
    /\ events = <<>>
    /\ statusLog = <<>>
    /\ MainIdle
    /\ H2HIdle
    /\ ScoreIdle

Next ==
    \/ Post(Replies) /\ UNCHANGED mainVars /\ UNCHANGED h2hVars /\ UNCHANGED scoreVars
    \/ PostRaises /\ UNCHANGED mainVars /\ UNCHANGED h2hVars /\ UNCHANGED scoreVars
    \/ Sleep /\ UNCHANGED mainVars /\ UNCHANGED h2hVars /\ UNCHANGED scoreVars
    \/ Exhausted /\ UNCHANGED mainVars /\ UNCHANGED h2hVars /\ UNCHANGED scoreVars

Spec == Init /\ [][Next]_vars

\* ---------------------------------------------------- main: the batch loop
\* A cell of the "text" column: a string (a sequence of characters) or the
\* NaN pandas reads an empty cell as.
StrCell(chars) == [nan |-> FALSE, s |-> chars]
NaNCell == [nan |-> TRUE, s |-> <<>>]

\* str(x)
Str(cell) == IF cell.nan THEN <<"n", "a", "n">> ELSE cell.s

\* s.strip()
RECURSIVE LStrip(_)
LStrip(s) == IF s # <<>> /\ Head(s) = " " THEN LStrip(Tail(s)) ELSE s
RECURSIVE RStrip(_)
RStrip(s) ==
    IF s # <<>> /\ s[Len(s)] = " " THEN RStrip(SubSeq(s, 1, Len(s) - 1)) ELSE s
Strip(s) == RStrip(LStrip(s))

\* text = str(row["text"]).strip()
RowText(cell) == Strip(Str(cell))

Cells ==
    {NaNCell, StrCell(<<" ">>), StrCell(<<"a">>), StrCell(<<" ", "a">>),
     StrCell(<<"b", " ">>)}

RECURSIVE SeqsUpTo(_, _)
SeqsUpTo(S, n) ==
    IF n = 0 THEN {<<>>}
    ELSE LET shorter == SeqsUpTo(S, n - 1)
         IN  shorter \cup {Append(q, x) : q \in shorter, x \in S}

\* the replies the simulated service gives during a batch
BatchReplies ==
    {Reply(500, Text(EmptyObject, 350)), Reply(200, Text(NotJson, 350))}
        \cup {Reply(200, Text(Completion(c), 350)) : c \in {Good, Obj(JV("int", 0), JAbsent)}}
        \cup {Reply(200, Text(ShapeOutputText(c), 350)) : c \in {Good, Obj(JV("int", 0), JAbsent)}}

Row(text, model_label, confidence) ==
    [text |-> text, model_label |-> model_label, confidence |-> confidence]
Outcome(text, kind, label, conf) ==
    [text |-> text, kind |-> kind, label |-> label, conf |-> conf]

\* if not text: continue
IsBlank(text) == text = <<>>

\* out_rows.append({"text": text, "model_label": label, "confidence": conf})
AppendRow(rws, text, pair) == Append(rws, Row(text, pair.label, pair.conf))

\* mutant: a failed row is written with a default label
OnException_DefaultRow(rws, text) == Append(rws, Row(text, 0, Zero))

\* except Exception as e: print(...); continue
OnException(rws, text) == rws

CallIdle ==
    /\ attempt' = 0
    /\ r' = NoResponse
    /\ last_status' = NoneStatus
    /\ last_body' = EmptyText
    /\ cpc' = "idle"
    /\ ret' = NoRet
    /\ exc' = NoExc
    /\ events' = <<>>
    /\ statusLog' = <<>>
    /\ UNCHANGED <<script, max_retries>>

\* the loop takes the next row: a blank text is skipped, any other text
\* enters the call with the default retry count
MainTake ==
    /\ mpc = "loop"
    /\ i < Len(df)
    /\ i' = i + 1
    /\ LET text == RowText(df[i + 1])
       IN  IF IsBlank(text)
           THEN /\ outcomes' = Append(outcomes, Outcome(text, "blank", 0, Zero))
                /\ UNCHANGED <<mpc, callVars>>
           ELSE /\ CallEntry(script, DefaultRetries)
                /\ mpc' = "call"
                /\ UNCHANGED outcomes
    /\ UNCHANGED <<df, out_rows>>

\* the call returned: the row is appended
MainAppend ==
    /\ mpc = "call"
    /\ cpc = "returned"
    /\ out_rows' = AppendRow(out_rows, RowText(df[i]), ret)
    /\ outcomes' = Append(outcomes, Outcome(RowText(df[i]), "ok", ret.label, ret.conf))
    /\ mpc' = "loop"
    /\ CallIdle
    /\ UNCHANGED <<df, i>>

\* the call raised: the handler prints and goes on with the next row
MainExcept ==
    /\ mpc = "call"
    /\ cpc = "raised"
    /\ out_rows' = OnException(out_rows, RowText(df[i]))
    /\ outcomes' = Append(outcomes, Outcome(RowText(df[i]), "failed", 0, Zero))
    /\ mpc' = "loop"
    /\ CallIdle
    /\ UNCHANGED <<df, i>>

\* pd.DataFrame(out_rows).to_csv(...) after the loop
MainWrite ==
    /\ mpc = "loop"
    /\ i = Len(df)
    /\ mpc' = "done"
    /\ UNCHANGED <<df, i, out_rows, outcomes, callVars>>

BatchInit ==
    /\ script \in Scripts
    /\ max_retries = DefaultRetries
    /\ attempt = 0
    /\ r = NoResponse
    /\ last_status = NoneStatus
    /\ last_body = EmptyText
    /\ cpc = "idle"
    /\ ret = NoRet
    /\ exc = NoExc
    /\ events = <<>>
    /\ statusLog = <<>>
    /\ df \in SeqsUpTo(Cells, MaxRows)
    /\ i = 0
    /\ out_rows = <<>>
    /\ mpc = "loop"
    /\ outcomes = <<>>
    /\ H2HIdle
    /\ ScoreIdle

BatchNext ==
    \/ MainTake /\ UNCHANGED h2hVars /\ UNCHANGED scoreVars
    \/ Post(BatchReplies) /\ UNCHANGED mainVars /\ UNCHANGED h2hVars /\ UNCHANGED scoreVars
    \/ PostRaises /\ UNCHANGED mainVars /\ UNCHANGED h2hVars /\ UNCHANGED scoreVars
    \/ Sleep /\ UNCHANGED mainVars /\ UNCHANGED h2hVars /\ UNCHANGED scoreVars
    \/ Exhausted /\ UNCHANGED mainVars /\ UNCHANGED h2hVars /\ UNCHANGED scoreVars
    \/ MainAppend /\ UNCHANGED h2hVars /\ UNCHANGED scoreVars
    \/ MainExcept /\ UNCHANGED h2hVars /\ UNCHANGED scoreVars
    \/ MainWrite /\ UNCHANGED h2hVars /\ UNCHANGED scoreVars

BatchSpec == BatchInit /\ [][BatchNext]_vars

\* ------------------------------ specification: a single call that goes on
\* The call under the scheduling the code has: each request returns or
\* raises (timeout=60) and each sleep ends, so a step that can be taken is
\* taken.  The service answers with the replies of the batch run.
FairNext ==
    \/ Post(BatchReplies) /\ UNCHANGED mainVars /\ UNCHANGED h2hVars /\ UNCHANGED scoreVars
    \/ PostRaises /\ UNCHANGED mainVars /\ UNCHANGED h2hVars /\ UNCHANGED scoreVars
    \/ Sleep /\ UNCHANGED mainVars /\ UNCHANGED h2hVars /\ UNCHANGED scoreVars
    \/ Exhausted /\ UNCHANGED mainVars /\ UNCHANGED h2hVars /\ UNCHANGED scoreVars

FairSpec == Init /\ [][FairNext]_vars /\ WF_vars(FairNext)

\* ------------------------------------------------------------ analyze_h2h
\* A cell of the rating matrix after astype(float): a label or NaN.
Rating(v) == [nan |-> FALSE, v |-> v]
NaN == [nan |-> TRUE, v |-> 0]
Labels == {0, 1}
RatingCells == {Rating(v) : v \in Labels} \cup {NaN}

RECURSIVE SumSeq(_)
SumSeq(q) == IF q = <<>> THEN 0 ELSE Head(q) + SumSeq(Tail(q))
\* the sum of the values of a function with a finite domain
RECURSIVE SumFn(_)
SumFn(f) ==
    IF DOMAIN f = {} THEN 0
    ELSE LET x == CHOOSE x \in DOMAIN f : TRUE
         IN  f[x] + SumFn([y \in DOMAIN f \ {x} |-> f[y]])

\* vals = X[i, mask[i]]: the non-NaN cells of row i, as a sequence
RowValues(row) == SelectSeq(row, LAMBDA cell : ~cell.nan)
\* np.sum(vals == c)
CountIn(vals, c) == Cardinality({j \in DOMAIN vals : vals[j].v = c})
\* cats = np.unique(X[mask])
Cats(Xs) == {Xs[j][h].v : <<j, h>> \in {p \in (DOMAIN Xs) \X (1..2) :
                                           p[2] \in DOMAIN Xs[p[1]] /\ ~Xs[p[1]][p[2]].nan}}

\* mutant: a row adds n*(m-n) for one category only
DoNum_OncePerItem(Xs) ==
    SumSeq([j \in DOMAIN Xs |->
              LET vals == RowValues(Xs[j])
                  m == Len(vals)
                  c == IF vals = <<>> THEN 0 ELSE vals[1].v
              IN  IF m <= 1 THEN 0 ELSE CountIn(vals, c) * (m - CountIn(vals, c))])
\* mutant: a row adds its unordered pairs, m*(m-1)/2
DoDen_UnorderedPairs(Xs) ==
    SumSeq([j \in DOMAIN Xs |->
              LET m == Len(RowValues(Xs[j]))
              IN  IF m <= 1 THEN 0 ELSE (m * (m - 1)) \div 2])

\* lines 9-18: Do_num / Do_den over the rows with more than one rating
DoNum(Xs) ==
    SumSeq([j \in DOMAIN Xs |->
              LET vals == RowValues(Xs[j])
                  m == Len(vals)
              IN  IF m <= 1 THEN 0
                  ELSE SumFn([c \in Cats(Xs) |->
                                 CountIn(vals, c) * (m - CountIn(vals, c))])])
DoDen(Xs) ==
    SumSeq([j \in DOMAIN Xs |->
              LET m == Len(RowValues(Xs[j]))
              IN  IF m <= 1 THEN 0 ELSE m * (m - 1)])
ObservedDisagreement(Xs) ==
    IF DoDen(Xs) > 0 THEN Frac(DoNum(Xs), DoDen(Xs)) ELSE FNaN

\* lines 20-23: n_tot, p and De = 1 - sum(p^2)
NTot(Xs) == SumSeq([j \in DOMAIN Xs |-> Len(RowValues(Xs[j]))])
CatCount(Xs, c) == SumSeq([j \in DOMAIN Xs |-> CountIn(RowValues(Xs[j]), c)])
ExpectedDisagreement(Xs) ==
    LET sq == [c \in Cats(Xs) |-> CatCount(Xs, c) * CatCount(Xs, c)]
    IN  Frac(NTot(Xs) * NTot(Xs) - SumFn(sq), NTot(Xs) * NTot(Xs))

\* mutant: no expected disagreement always gives NaN
AlphaOf_DegenerateNaN(Do, De) ==
    IF De.num = 0 THEN FNaN ELSE FSub(One, FDiv(Do, De))

\* mutant: the ratio Do/De itself, not its complement
AlphaOf_Ratio(Do, De) ==
    IF De.num = 0
    THEN IF ~Do.nan /\ Do.num = 0 THEN One ELSE FNaN
    ELSE FDiv(Do, De)

\* lines 24-25
AlphaOf(Do, De) ==
    IF De.num = 0
    THEN IF ~Do.nan /\ Do.num = 0 THEN One ELSE FNaN
    ELSE FSub(One, FDiv(Do, De))

kripp_alpha_nominal(Xs) ==
    IF NTot(Xs) = 0 THEN FNaN
    ELSE AlphaOf(ObservedDisagreement(Xs), ExpectedDisagreement(Xs))

\* raters = [c for c in df.columns if c != "Sentence"]
raters == <<"A", "B", "C">>

\* itertools.combinations(raters, 2), as index pairs in its order
RECURSIVE PairsFrom(_, _, _)
PairsFrom(a, b, n) ==
    IF a >= n THEN <<>>
    ELSE IF b > n THEN PairsFrom(a + 1, a + 2, n)
    ELSE <<(<<a, b>>)>> \o PairsFrom(a, b + 1, n)
combinations(seq) == PairsFrom(1, 2, Len(seq))

\* sub = df[[a, b]].dropna(), as the sequence of its rows
DropNa(M, a, b) ==
    LET two == [j \in DOMAIN M |-> <<M[j][a], M[j][b]>>]
    IN  SelectSeq(two, LAMBDA row : ~row[1].nan /\ ~row[2].nan)

\* mutant: a single shared item is taken as enough
Enough_One(t) == Len(t) >= 1

\* if len(sub) >= 2
Enough(t) == Len(t) >= 2

Record(a, b, n, al) == [rater_a |-> a, rater_b |-> b, n_items |-> n, alpha |-> al]

\* one iteration of the loop over the rater pairs
PairStep ==
    /\ hpc = "pairs"
    /\ pairIdx < Len(combinations(raters))
    /\ LET pr == combinations(raters)[pairIdx + 1]
           a == raters[pr[1]]
           b == raters[pr[2]]
           s == DropNa(X, a, b)
       IN  /\ sub' = s
           /\ alpha' = IF Enough(s) THEN kripp_alpha_nominal(s) ELSE alpha
           /\ rows' = IF Enough(s)
                       THEN Append(rows, Record(a, b, Len(s), kripp_alpha_nominal(s)))
                       ELSE rows
    /\ pairIdx' = pairIdx + 1
    /\ UNCHANGED <<X, out, hpc>>

\* if not rows: print(...); return
NoRows ==
    /\ hpc = "pairs"
    /\ pairIdx = Len(combinations(raters))
    /\ rows = <<>>
    /\ hpc' = "none"
    /\ UNCHANGED <<X, pairIdx, sub, alpha, rows, out>>

\* mutant: the table sorted by alpha ascending
SortedByAlpha_Ascending(q) ==
    \A j, h \in DOMAIN q :
        j < h => /\ ~FLess(q[h].alpha, q[j].alpha)
                 /\ q[j].alpha.nan => q[h].alpha.nan

\* sort_values("alpha", ascending=False): alpha descending, NaN last; rows
\* of equal alpha in any order (the default sort is not stable)
SortedByAlpha(q) ==
    \A j, h \in DOMAIN q :
        j < h => /\ ~FLess(q[j].alpha, q[h].alpha)
                 /\ q[j].alpha.nan => q[h].alpha.nan
Orderings(q) ==
    {[j \in DOMAIN q |-> q[f[j]]] :
        f \in {g \in [DOMAIN q -> DOMAIN q] : \A j, h \in DOMAIN q : g[j] = g[h] => j = h}}

SortAndWrite ==
    /\ hpc = "pairs"
    /\ pairIdx = Len(combinations(raters))
    /\ rows # <<>>
    /\ out' \in {q \in Orderings(rows) : SortedByAlpha(q)}
    /\ hpc' = "written"
    /\ UNCHANGED <<X, pairIdx, sub, alpha, rows>>

Row3(a, b, c) == [x \in {"A", "B", "C"} |-> CASE x = "A" -> a [] x = "B" -> b [] OTHER -> c]
MatrixRows == {Row3(a, b, c) : a \in RatingCells, b \in RatingCells, c \in RatingCells}

\* The matrices main is run on.  main reads the items as a bag: dropna keeps
\* or drops each item by itself, len(sub) counts items and kripp_alpha_nominal
\* sums over them, so of the matrices that differ in the order of their items
\* one is taken: the one whose items are in the order of ItemCode.
CellCode(cell) == IF cell.nan THEN 2 ELSE cell.v
ItemCode(row) == 9 * CellCode(row["A"]) + 3 * CellCode(row["B"]) + CellCode(row["C"])
Matrices ==
    {x \in [1..MaxItems -> MatrixRows] :
        \A j \in 1..(MaxItems - 1) : ItemCode(x[j]) <= ItemCode(x[j + 1])}

CallUnused ==
    /\ script = "none"
    /\ max_retries = 0
    /\ attempt = 0
    /\ r = NoResponse
    /\ last_status = NoneStatus
    /\ last_body = EmptyText
    /\ cpc = "idle"
    /\ ret = NoRet
    /\ exc = NoExc
    /\ events = <<>>
    /\ statusLog = <<>>

H2HInit ==
    /\ CallUnused
    /\ MainIdle
    /\ ScoreIdle
    /\ X \in Matrices
    /\ pairIdx = 0
    /\ sub = <<>>
    /\ alpha = FNaN
    /\ rows = <<>>
    /\ out = <<>>
    /\ hpc = "pairs"

H2HNext ==
    \/ PairStep /\ UNCHANGED callVars /\ UNCHANGED mainVars /\ UNCHANGED scoreVars
    \/ NoRows /\ UNCHANGED callVars /\ UNCHANGED mainVars /\ UNCHANGED scoreVars
    \/ SortAndWrite /\ UNCHANGED callVars /\ UNCHANGED mainVars /\ UNCHANGED scoreVars

H2HSpec == H2HInit /\ [][H2HNext]_vars

\* ------------------------------ specification: main on complete matrices
\* main run on the matrices in which every rater rated every item, of one to
\* MaxFullItems items, the items again taken as a bag.
FullRows == {row \in MatrixRows : \A x \in DOMAIN row : ~row[x].nan}
FullMatrices ==
    UNION {{x \in [1..n -> FullRows] :
               \A j \in 1..(n - 1) : ItemCode(x[j]) <= ItemCode(x[j + 1])} :
           n \in 1..MaxFullItems}

RankInit ==
    /\ CallUnused
    /\ MainIdle
    /\ ScoreIdle
    /\ X \in FullMatrices
    /\ pairIdx = 0
    /\ sub = <<>>
    /\ alpha = FNaN
    /\ rows = <<>>
    /\ out = <<>>
    /\ hpc = "pairs"

RankSpec == RankInit /\ [][H2HNext]_vars

\* ------------------------------- specification: kripp_alpha_nominal alone
\* The function applied to a two-column table without missing cells, as main
\* hands it over: tables over the labels {0, 1}, and tables over three
\* and over four categories.
PairRows(cats) == {<<Rating(a), Rating(b)>> : a \in cats, b \in cats}
Tables ==
    (SeqsUpTo(PairRows(Labels), MaxBinaryItems)
        \cup SeqsUpTo(PairRows({0, 1, 2}), MaxTernaryItems)
        \cup SeqsUpTo(PairRows({0, 1, 2, 3}), MaxQuaternaryItems)) \ {<<>>}

Compute ==
    /\ hpc = "alpha"
    /\ alpha' = kripp_alpha_nominal(sub)
    /\ hpc' = "computed"
    /\ UNCHANGED <<X, pairIdx, sub, rows, out>>

AlphaInit ==
    /\ CallUnused
    /\ MainIdle
    /\ ScoreIdle
    /\ X = <<>>
    /\ pairIdx = 0
    /\ sub \in Tables
    /\ alpha = FNaN
    /\ rows = <<>>
    /\ out = <<>>
    /\ hpc = "alpha"

AlphaNext == Compute /\ UNCHANGED callVars /\ UNCHANGED mainVars /\ UNCHANGED scoreVars

AlphaSpec == AlphaInit /\ [][AlphaNext]_vars

\* -------------------------------------------------------- score_llm_vs_gold
\* Strings are sequences of characters, as in the batch loop.
Lowers == <<"a", "b", "e", "f", "g", "i", "l", "n", "o", "r", "s", "t", "u", "y">>
Uppers == <<"A", "B", "E", "F", "G", "I", "L", "N", "O", "R", "S", "T", "U", "Y">>
LowerChar(c) ==
    IF \E j \in DOMAIN Uppers : Uppers[j] = c
    THEN Lowers[CHOOSE j \in DOMAIN Uppers : Uppers[j] = c]
    ELSE c
UpperChar(c) ==
    IF \E j \in DOMAIN Lowers : Lowers[j] = c
    THEN Uppers[CHOOSE j \in DOMAIN Lowers : Lowers[j] = c]
    ELSE c
\* s.lower(), s.upper(), s.capitalize()
Lower(s) == [j \in DOMAIN s |-> LowerChar(s[j])]
Upper(s) == [j \in DOMAIN s |-> UpperChar(s[j])]
Capitalize(s) == [j \in DOMAIN s |-> IF j = 1 THEN UpperChar(s[j]) ELSE LowerChar(s[j])]

Digits == <<"0", "1", "2", "3", "4", "5", "6", "7", "8", "9">>
IsDigit(c) == \E j \in DOMAIN Digits : Digits[j] = c
DigitVal(c) == (CHOOSE j \in DOMAIN Digits : Digits[j] = c) - 1
RECURSIVE IntVal(_)
IntVal(ds) ==
    IF ds = <<>> THEN 0
    ELSE 10 * IntVal(SubSeq(ds, 1, Len(ds) - 1)) + DigitVal(ds[Len(ds)])

\* int(float(x)) of a string x; ok = FALSE where float() or int() raises.
\* float() drops the blanks around, then takes an optional sign and digits
\* with at most one point; int() drops the fraction.  The strings "nan" and
\* "inf" pass float() and raise in int(), other strings raise in float().
IntFloatStr(chars) ==
    LET t == Strip(chars)
        signed == t # <<>> /\ t[1] \in {"+", "-"}
        sgn == IF signed /\ t[1] = "-" THEN -1 ELSE 1
        body == IF signed THEN Tail(t) ELSE t
        dots == {j \in DOMAIN body : body[j] = "."}
        cut == IF dots = {} THEN Len(body) + 1 ELSE CHOOSE j \in dots : TRUE
        whole == SubSeq(body, 1, cut - 1)
        frac == SubSeq(body, cut + 1, Len(body))
        numeric ==
            /\ Cardinality(dots) <= 1
            /\ \A j \in DOMAIN whole : IsDigit(whole[j])
            /\ \A j \in DOMAIN frac : IsDigit(frac[j])
            /\ Len(whole) + Len(frac) >= 1
    IN  IF numeric THEN Value(sgn * IntVal(whole)) ELSE Raised

\* line 10: int(float(x)), caught by the bare except of line 11
IntFloat(x) == IF x.k = "str" THEN IntFloatStr(x.s) ELSE Value(Trunc10(x.n))

TrueWords == {<<"1">>, <<"t", "r", "u", "e">>, <<"y", "e", "s">>}
FalseWords == {<<"0">>, <<"f", "a", "l", "s", "e">>, <<"n", "o">>}

to01(x) ==
    IF x.k = "nan" THEN Missing
    ELSE IF x.k = "str" /\ Lower(Strip(x.s)) \in TrueWords THEN Label(1)
    ELSE IF x.k = "str" /\ Lower(Strip(x.s)) \in FalseWords THEN Label(0)
    ELSE IF IntFloat(x).ok THEN Label(IntFloat(x).v) ELSE Missing

\* ------------------------------------------------ specification: to01 alone
Spaces(n) == [j \in 1..n |-> " "]
Pad(s, l, rr) == Spaces(l) \o s \o Spaces(rr)
Words ==
    {<<"1">>, <<"0">>, <<"2">>, <<"-", "1">>, <<"1", ".", "0">>, <<"0", ".", "7">>,
     <<"t", "r", "u", "e">>, <<"y", "e", "s">>, <<"f", "a", "l", "s", "e">>, <<"n", "o">>,
     <<"g", "a", "r", "b", "a", "g", "e">>, <<"n", "a", "n">>, <<>>}
Spellings(w) == {w, Upper(w), Capitalize(w)}
Numbers == {-10, 0, 7, 10, 15, 20}
RawValues ==
    {RawNaN}
        \cup {RawNum(n) : n \in Numbers}
        \cup {RawStr(Pad(c, l, rr)) :
                 c \in UNION {Spellings(w) : w \in Words}, l \in 0..MaxPad, rr \in 0..MaxPad}

Apply01 ==
    /\ spc = "to01"
    /\ norm' = to01(raw)
    /\ spc' = "normalized"
    /\ UNCHANGED <<gold, pred, merged, metrics, scoreExc, written, raw>>

To01Init ==
    /\ CallUnused
    /\ MainIdle
    /\ H2HIdle
    /\ gold = <<>>
    /\ pred = <<>>
    /\ merged = <<>>
    /\ metrics = NoMetrics
    /\ scoreExc = "none"
    /\ written = <<>>
    /\ spc = "to01"
    /\ raw \in RawValues
    /\ norm = Missing

To01Next == Apply01 /\ UNCHANGED callVars /\ UNCHANGED mainVars /\ UNCHANGED h2hVars

To01Spec == To01Init /\ [][To01Next]_vars

\* ------------------------------------------- specification: the scoring run
Texts == {"s", "t"}
GoldLabels == {RawNum(0), RawNum(10), RawNaN}
PredLabels == {RawNum(0), RawNum(10), RawNum(20)}
GoldRow(t, l) == [text |-> t, label |-> l]
PredRow(t, l) == [text |-> t, model_label |-> l]
GoldRows == {GoldRow(t, l) : t \in Texts, l \in GoldLabels}
PredRows == {PredRow(t, l) : t \in Texts, l \in PredLabels}

\* lines 23-26: the inner merge on "text", in the order of the left rows
RowsFor(g, p) ==
    LET hit == SelectSeq(p, LAMBDA row : row.text = g.text)
    IN  [j \in DOMAIN hit |->
            [text |-> g.text, label |-> g.label, model_label |-> hit[j].model_label]]
RECURSIVE Join(_, _)
Join(g, p) == IF g = <<>> THEN <<>> ELSE RowsFor(Head(g), p) \o Join(Tail(g), p)

\* lines 27-29 and 34-35: y_true and y_pred, the rows with a missing one dropped
Normalize(m) ==
    LET kept == SelectSeq(m, LAMBDA row :
                    ~to01(row.label).missing /\ ~to01(row.model_label).missing)
    IN  [j \in DOMAIN kept |->
            [text |-> kept[j].text,
             y_true |-> to01(kept[j].label).v,
             y_pred |-> to01(kept[j].model_label).v]]

Merge ==
    /\ spc = "start"
    /\ merged' = Normalize(Join(gold, pred))
    /\ spc' = "merged"
    /\ UNCHANGED <<gold, pred, metrics, scoreExc, written, raw, norm>>

\* mutant: a single merged row also counts as no overlap
EmptyOverlap_AtMostOne(m) == Len(m) <= 1

\* line 31
EmptyOverlap(m) == Len(m) = 0

\* lines 31-32
NoOverlap ==
    /\ spc = "merged"
    /\ EmptyOverlap(merged)
    /\ scoreExc' = "SystemExit"
    /\ spc' = "exited"
    /\ UNCHANGED <<gold, pred, merged, metrics, written, raw, norm>>

Count(m, a, b) == Cardinality({j \in DOMAIN m : m[j].y_true = a /\ m[j].y_pred = b})
CountTrue(m, a) == Cardinality({j \in DOMAIN m : m[j].y_true = a})
CountPred(m, b) == Cardinality({j \in DOMAIN m : m[j].y_pred = b})
\* unique_labels(y_true, y_pred)
LabelsOf(m) == {m[j].y_true : j \in DOMAIN m} \cup {m[j].y_pred : j \in DOMAIN m}
\* a ratio under zero_division=0
Ratio(n, d) == IF d = 0 THEN Zero ELSE Frac(n, d)

\* line 37: accuracy_score
Accuracy(m) == Frac(Cardinality({j \in DOMAIN m : m[j].y_true = m[j].y_pred}), Len(m))
\* line 38: precision_recall_fscore_support(average="binary") raises
\* ValueError when the labels present are more than two, or are two without
\* the positive label 1
BinaryRaises(m) ==
    \/ Cardinality(LabelsOf(m)) > 2
    \/ Cardinality(LabelsOf(m)) = 2 /\ 1 \notin LabelsOf(m)
Precision(m) == Ratio(Count(m, 1, 1), CountPred(m, 1))
Recall(m) == Ratio(Count(m, 1, 1), CountTrue(m, 1))
\* F1 = 2PR/(P+R), written with the counts
F1(m) == Ratio(2 * Count(m, 1, 1), CountPred(m, 1) + CountTrue(m, 1))
\* line 39: confusion_matrix(y_true, y_pred) is square over the labels
\* present, in ascending order; ravel() gives its cells row by row
RECURSIVE Ascending(_)
Ascending(S) ==
    IF S = {} THEN <<>>
    ELSE LET lo == CHOOSE a \in S : \A b \in S : a <= b
         IN  <<lo>> \o Ascending(S \ {lo})
Confusion(m) ==
    LET order == Ascending(LabelsOf(m))
        k == Len(order)
    IN  [c \in 1..(k * k) |->
            Count(m, order[((c - 1) \div k) + 1], order[((c - 1) % k) + 1])]
\* tn, fp, fn, tp = ...: the unpacking raises ValueError unless there are
\* four cells
UnpackRaises(m) == Len(Confusion(m)) # 4

\* lines 34-39
Score ==
    /\ spc = "merged"
    /\ ~EmptyOverlap(merged)
    /\ IF BinaryRaises(merged)
       THEN /\ metrics' = [NoMetrics EXCEPT !.acc = Accuracy(merged)]
            /\ scoreExc' = "ValueError"
            /\ spc' = "raised"
       ELSE IF UnpackRaises(merged)
       THEN /\ metrics' = [NoMetrics EXCEPT !.acc = Accuracy(merged),
                                            !.prec = Precision(merged),
                                            !.rec = Recall(merged),
                                            !.f1 = F1(merged)]
            /\ scoreExc' = "ValueError"
            /\ spc' = "raised"
       ELSE /\ metrics' = [acc |-> Accuracy(merged), prec |-> Precision(merged),
                           rec |-> Recall(merged), f1 |-> F1(merged),
                           tn |-> Confusion(merged)[1], fp |-> Confusion(merged)[2],
                           fn |-> Confusion(merged)[3], tp |-> Confusion(merged)[4]]
            /\ scoreExc' = scoreExc
            /\ spc' = "scored"
    /\ UNCHANGED <<gold, pred, merged, written, raw, norm>>

\* line 44
WriteMerged ==
    /\ spc = "scored"
    /\ written' = merged
    /\ spc' = "done"
    /\ UNCHANGED <<gold, pred, merged, metrics, scoreExc, raw, norm>>

ScoreInit ==
    /\ CallUnused
    /\ MainIdle
    /\ H2HIdle
    /\ gold \in SeqsUpTo(GoldRows, MaxGold)
    /\ pred \in SeqsUpTo(PredRows, MaxPred)
    /\ merged = <<>>
    /\ metrics = NoMetrics
    /\ scoreExc = "none"
    /\ written = <<>>
    /\ spc = "start"
    /\ raw = RawNaN
    /\ norm = Missing

ScoreNext ==
    \/ Merge /\ UNCHANGED callVars /\ UNCHANGED mainVars /\ UNCHANGED h2hVars
    \/ NoOverlap /\ UNCHANGED callVars /\ UNCHANGED mainVars /\ UNCHANGED h2hVars
    \/ Score /\ UNCHANGED callVars /\ UNCHANGED mainVars /\ UNCHANGED h2hVars
    \/ WriteMerged /\ UNCHANGED callVars /\ UNCHANGED mainVars /\ UNCHANGED h2hVars

ScoreSpec == ScoreInit /\ [][ScoreNext]_vars

\* ------------------------------------------------ vocabulary of the claims
\* number of requests the call has sent
NumPosts == Cardinality({j \in DOMAIN events : events[j].e = "post"})

CallEnded == cpc \in {"returned", "raised"}
CallGoesOn == cpc \in {"sleep", "loop"}
TransportError == exc.type = "RequestException"

\* the texts held by the text chunks of the message items of an output list
MessageTexts(items) ==
    UNION {{items[j].content[h].text :
                h \in {h \in DOMAIN items[j].content : items[j].content[h].has_text}} :
           j \in {j \in DOMAIN items : items[j].type = "message"}}

\* the reply body carries content c in one named envelope shape, and nothing
\* in the places of the other shapes
InCompletion(d, c) == d.json /\ d.choices.has /\ Len(d.choices.list) >= 1 /\ d.choices.list[1] = c
InOutputText(d, c) == d.json /\ d.output_text = Field(c) /\ d.output.t = "absent"
InOutputDotText(d, c) ==
    d.json /\ ~d.output_text.has /\ d.output.t = "dict"
        /\ d.output.text = Field(c) /\ ~d.output.choices.has
InOutputChoices(d, c) ==
    d.json /\ ~d.output_text.has /\ d.output.t = "dict" /\ ~d.output.text.has
        /\ d.output.choices.has /\ Len(d.output.choices.list) >= 1
        /\ Len(d.output.choices.list[1]) >= 1
        /\ d.output.choices.list[1][1] = Chunk(c)
InOutputItems(d, c) ==
    d.json /\ ~d.output_text.has /\ d.output.t = "list"
        /\ MessageTexts(d.output.items) = {c}

Carries(s, d, c) ==
    IF s = "openai" THEN InCompletion(d, c)
    ELSE InOutputText(d, c) \/ InOutputDotText(d, c) \/ InOutputChoices(d, c)
            \/ InOutputItems(d, c)

\* a JSON object with an integer-like label and a numeric (or no) confidence
WellFormed(c) ==
    /\ c.k = "object"
    /\ c.label.t \in {"int", "float", "intstr"}
    /\ c.confidence.t \in {"absent", "int", "float", "intstr", "floatstr"}

\* the normalized pair the specification asks for
Normalized(c) ==
    LET n == PyInt(c.label).v
        p == IF c.confidence.t = "absent" THEN Frac(1, 2) ELSE PyFloat(c.confidence).f
    IN  [label |-> IF n = 1 THEN 1 ELSE 0,
         conf |-> IF FLess(p, Zero) THEN Zero ELSE IF FLess(One, p) THEN One ELSE p]

\* the content the running script takes out of a reply body
Extracted(s, d) ==
    IF s = "openai"
    THEN IF d.json /\ d.choices.has /\ Len(d.choices.list) >= 1
         THEN Found(d.choices.list[1]) ELSE NotFound
    ELSE IF d.json THEN parse_output(d) ELSE NotFound

\* the body is no JSON, holds no text where the script looks, or the text is
\* no JSON object
Unparseable(s, d) == ~Extracted(s, d).ok \/ Extracted(s, d).v.k # "object"

\* ================================================================ claims

\* C1 (as stated): in both calls, an attempt k < K that ends in a non-200
\* status or in a 200 reply whose body cannot be extracted or parsed is
\* followed by attempt k+1, and the call never fails terminally before K
\* attempts have been made.
C1_RetryOnEveryFailure ==
    /\ (/\ ~TransportError
        /\ Len(statusLog) \in 1..(max_retries - 1)
        /\ (r.status_code # 200 \/ Unparseable(script, r.text.json)))
          => CallGoesOn
    /\ (cpc = "raised" /\ ~TransportError) => NumPosts = max_retries

\* C2: for 1 <= j <= K, when attempts 1..j-1 are answered with a non-success
\* status the call goes on to attempt j, and when attempt j is then answered
\* with a well-formed reply the call returns the normalized pair of that reply
\* without raising, having sent exactly j requests.
C2_SucceedsOnAttemptJ ==
    LET j == Len(statusLog)
        d == r.text.json
    IN  /\ (/\ ~TransportError
            /\ j < max_retries
            /\ \A h \in 1..j : statusLog[h] # 200)
              => CallGoesOn
        /\ \A c \in Contents :
              (/\ j >= 1
               /\ \A h \in 1..(j - 1) : statusLog[h] # 200
               /\ statusLog[j] = 200
               /\ WellFormed(c)
               /\ Carries(script, d, c))
                 => /\ cpc = "returned"
                    /\ ret = Normalized(c)
                    /\ exc = NoExc
                    /\ NumPosts = j

C2_Witness ==
    /\ max_retries = 3
    /\ Len(statusLog) = 3
    /\ statusLog[1] # 200 /\ statusLog[2] # 200 /\ statusLog[3] = 200
    /\ cpc = "returned"
    /\ Carries(script, r.text.json, Good)
    /\ ret = [label |-> 1, conf |-> Frac(7, 10)]

\* C3 (as stated): when all K >= 1 attempts fail, the terminal error of both
\* calls carries the status code of the K-th attempt and that attempt's body
\* cut to the script's fixed length.
C3_ErrorCarriesStatusAndBody ==
    (cpc = "raised" /\ exc.type = "RuntimeError" /\ max_retries >= 1)
        => /\ exc.msg.has_status
           /\ exc.msg.status = r.status_code
           /\ exc.msg.body = Prefix(r.text, BodyLimit(script))

\* C4 (as stated): the delay immediately before attempt k is unit x k for
\* every attempt made, and no delay is taken that no attempt follows.
C4_DelayBeforeAttempt ==
    /\ \A j \in DOMAIN events :
          events[j].e = "post"
              => j > 1 /\ events[j - 1] = Event("sleep", UnitDelay * events[j].n)
    /\ (CallEnded /\ events # <<>>) => events[Len(events)].e # "sleep"

\* C4 (amended): the delay is taken after an attempt, not before it: every
\* delay directly follows an attempt k that neither returned nor raised and
\* lasts unit x k; attempt 1 has no delay before it, attempt k >= 2 has the
\* delay unit x (k-1) directly before it; the K-th failed attempt is still
\* followed by a delay of unit x K, after which the terminal error is raised.
C4_DelayAfterAttempt ==
    /\ \A j \in DOMAIN events :
          events[j].e = "sleep"
              => j > 1 /\ events[j - 1].e = "post"
                       /\ events[j].n = UnitDelay * events[j - 1].n
    /\ \A j \in DOMAIN events :
          events[j].e = "post"
              => IF events[j].n = 1 THEN j = 1
                 ELSE events[j - 1] = Event("sleep", UnitDelay * (events[j].n - 1))
    /\ (cpc = "raised" /\ exc.type = "RuntimeError" /\ max_retries >= 1)
          => events[Len(events)] = Event("sleep", UnitDelay * max_retries)

C4_Witness ==
    /\ cpc = "raised" /\ exc.type = "RuntimeError" /\ max_retries = 3
    /\ events = <<Event("post", 1), Event("sleep", 1), Event("post", 2),
                  Event("sleep", 2), Event("post", 3), Event("sleep", 3)>>

\* C6 (as stated): every returned pair has label 1 when the integer taken from the reply
\* is 1 and label 0 for every other integer, and a confidence within [0, 1]
\* that is the reply's confidence clamped, 0.5 when the reply has none.
C6_ReturnedPairNormalized ==
    cpc = "returned"
        => LET c == Extracted(script, r.text.json).v
           IN  /\ ret.label \in {0, 1}
               /\ c.label.t # "absent"
                    => (ret.label = 1 <=> PyInt(c.label).v = 1)
               /\ ~ret.conf.nan /\ ~FLess(ret.conf, Zero) /\ ~FLess(One, ret.conf)
               /\ c.confidence.t # "absent"
                    => LET p == PyFloat(c.confidence).f
                       IN  ret.conf = IF FLess(p, Zero) THEN Zero
                                      ELSE IF FLess(One, p) THEN One ELSE p
               /\ c.confidence.t = "absent" => ret.conf = Frac(1, 2)

\* C7 (as stated): a call returns only from a reply whose JSON object has a
\* label field; call_openai and call_responses alike.
C7_NoLabelNoResult ==
    cpc = "returned" => Extracted(script, r.text.json).v.label.t # "absent"

\* C8: a status-200 reply carrying a well-formed object in any one of the
\* known envelope shapes makes the call return that object's normalized
\* pair on the first attempt.
C8_EveryKnownShape ==
    \A c \in Contents :
        LET d == r.text.json
            first == statusLog = <<200>> /\ WellFormed(c)
            done == cpc = "returned" /\ ret = Normalized(c) /\ NumPosts = 1
        IN  /\ (script = "openai" /\ first /\ InCompletion(d, c)) => done
            /\ (script = "responses" /\ first /\ InOutputText(d, c)) => done
            /\ (script = "responses" /\ first /\ InOutputDotText(d, c)) => done
            /\ (script = "responses" /\ first /\ InOutputChoices(d, c)) => done
            /\ (script = "responses" /\ first /\ InOutputItems(d, c)) => done

C8_Witness ==
    /\ script = "responses"
    /\ statusLog = <<200>>
    /\ r.text.json = ShapeOutputItems(Obj(JV("int", 10), JV("float", 15)))
    /\ cpc = "returned"
    /\ ret = [label |-> 1, conf |-> One]

\* the rows the batch must have produced, given what happened to each input
\* row: one per successfully annotated row, in input order
RECURSIVE ExpectedRows(_)
ExpectedRows(log) ==
    IF log = <<>> THEN <<>>
    ELSE LET o == Head(log)
         IN  IF o.kind = "ok"
             THEN <<Row(o.text, o.label, o.conf)>> \o ExpectedRows(Tail(log))
             ELSE ExpectedRows(Tail(log))

\* C5: in the batch loop of both scripts a row whose call fails (retries
\* exhausted or any exception out of the call) adds no output row, every
\* later row is still processed, and the output is exactly the successfully
\* annotated non-blank texts in input order, each with the label and
\* confidence its own call returned.
C5_BatchIsolatesFailures ==
    /\ Len(outcomes) <= Len(df)
    /\ out_rows = ExpectedRows(outcomes)
    /\ \A j \in DOMAIN outcomes :
          /\ outcomes[j].text = RowText(df[j])
          /\ outcomes[j].kind = "blank" <=> RowText(df[j]) = <<>>
    /\ mpc = "done" => Len(outcomes) = Len(df)
    /\ (mpc = "call" /\ CallEnded) => ENABLED (MainAppend \/ MainExcept)

C5_Witness ==
    /\ mpc = "done"
    /\ Len(df) = 2
    /\ outcomes[1].kind = "failed"
    /\ outcomes[2].kind = "ok"
    /\ out_rows = <<Row(<<"a">>, 1, Frac(7, 10))>>

\* ratings of one rater pair in the matrix: the items both have rated
Overlap(a, b) == {j \in DOMAIN X : ~X[j][a].nan /\ ~X[j][b].nan}
RaterPairs == {pr \in SUBSET {raters[j] : j \in DOMAIN raters} : Cardinality(pr) = 2}
PairOf(rec) == {rec.rater_a, rec.rater_b}

\* C9: in the pairwise table every record has rater_a # rater_b and
\* n_items >= 2, n_items being the number of items both raters have rated;
\* no unordered pair of raters appears twice; and once all pairs are taken,
\* an unordered pair appears if and only if it has at least 2 such items.
\* The same holds of the sorted table that is written.
C9_PairwiseTable ==
    LET table == IF hpc = "written" THEN out ELSE rows
    IN  /\ \A j \in DOMAIN table :
              /\ table[j].rater_a # table[j].rater_b
              /\ table[j].n_items >= 2
              /\ table[j].n_items = Cardinality(Overlap(table[j].rater_a, table[j].rater_b))
        /\ \A j, h \in DOMAIN table : PairOf(table[j]) = PairOf(table[h]) => j = h
        /\ pairIdx = Len(combinations(raters))
              => \A pr \in RaterPairs :
                    (\E j \in DOMAIN table : PairOf(table[j]) = pr)
                        <=> (\A a, b \in pr : Cardinality(Overlap(a, b)) >= 2)

C9_Witness ==
    /\ hpc = "written"
    /\ Len(out) = 2
    /\ Cardinality(Overlap("A", "B")) = 2
    /\ Cardinality(Overlap("A", "C")) = 2
    /\ Cardinality(Overlap("B", "C")) = 1
    /\ out[1].alpha # out[2].alpha

\* C10: for two raters with identical labels on all N >= 2 overlapping
\* items kripp_alpha_nominal returns exactly 1.0, when two or more
\* categories occur (De > 0) and when a single category occurs (De = 0).
Identical(t) == \A j \in DOMAIN t : t[j][1] = t[j][2]
C10_IdenticalGivesOne ==
    (hpc = "computed" /\ Len(sub) >= 2 /\ Identical(sub)) => alpha = One

C10_Witness ==
    /\ hpc = "computed"
    /\ sub = <<(<<Rating(1), Rating(1)>>), <<Rating(1), Rating(1)>>, <<Rating(1), Rating(1)>>>>
    /\ ExpectedDisagreement(sub).num = 0
    /\ alpha = One

\* ------------------------------------------------------------------- C11
\* number of items of the table on which raters a and b both gave a label
\* and the labels differ
Disagreements(a, b) == Cardinality({j \in Overlap(a, b) : X[j][a] # X[j][b]})
DisagreementsOf(rec) == Disagreements(rec.rater_a, rec.rater_b)
\* De of the record's pair, as kripp_alpha_nominal computes it in line 23
ExpectedOf(rec) == ExpectedDisagreement(DropNa(X, rec.rater_a, rec.rater_b))
\* x >= y on floats that are not NaN
FGeq(x, y) == ~x.nan /\ ~y.nan /\ ~FLess(x, y)
\* records j and h of the written table: same item count, j's pair with one
\* disagreeing item and h's pair with more
OneAgainstMore(j, h) ==
    /\ out[j].n_items = out[h].n_items
    /\ DisagreementsOf(out[j]) = 1
    /\ DisagreementsOf(out[h]) > 1
\* d * De(j) >= De(h), with d the number of disagreeing items of h's pair
ExpectedWithinFactor(j, h) ==
    LET ej == ExpectedOf(out[j])
        eh == ExpectedOf(out[h])
    IN  eh.num * ej.den <= DisagreementsOf(out[h]) * ej.num * eh.den

\* C11 (as stated): in the written table over labels {0, 1}, a record whose
\* pair has exactly one disagreeing item has an alpha no lower than, and
\* stands no lower than, every record of the same item count whose pair has
\* more disagreeing items.
C11_OneDisagreementRanksNoLower ==
    hpc = "written" =>
        \A j, h \in DOMAIN out :
            OneAgainstMore(j, h) =>
                /\ FGeq(out[j].alpha, out[h].alpha)
                /\ h < j => out[j].alpha = out[h].alpha

\* C11 (amended): the record with one disagreeing item has an alpha no lower
\* and stands no lower exactly when d times its expected disagreement De is
\* at least the De of the other record, d being the other record's number of
\* disagreeing items; otherwise its alpha is strictly lower and it stands
\* below the other record.
C11_RanksByExpectedDisagreement ==
    hpc = "written" =>
        \A j, h \in DOMAIN out :
            OneAgainstMore(j, h) =>
                IF ExpectedWithinFactor(j, h)
                THEN /\ FGeq(out[j].alpha, out[h].alpha)
                     /\ h < j => out[j].alpha = out[h].alpha
                ELSE /\ FLess(out[j].alpha, out[h].alpha)
                     /\ h < j
C11_Witness ==
    /\ hpc = "written"
    /\ \E j, h \in DOMAIN out :
          /\ OneAgainstMore(j, h)
          /\ out[j].n_items = MaxFullItems
          /\ ExpectedWithinFactor(j, h)
          /\ FLess(out[h].alpha, out[j].alpha)
          /\ j < h

\* ------------------------------------------------------------------- C12
\* record a stands before record b in a table sorted by alpha descending
DescendingPair(a, b) ==
    \/ b.alpha.nan
    \/ /\ ~a.alpha.nan
       /\ a.alpha.num * b.alpha.den >= b.alpha.num * a.alpha.den

\* C12: in the written table every record's alpha is >= the alpha of every
\* record after it, and a record whose alpha is NaN has only records with a
\* NaN alpha after it.
C12_TableSortedDescending ==
    hpc = "written" =>
        \A j \in DOMAIN out : \A h \in DOMAIN out :
            j < h => DescendingPair(out[j], out[h])
\* three records of three different alphas, which the sort had to reorder
C12_Witness ==
    /\ hpc = "written"
    /\ Len(out) = 3
    /\ FLess(out[3].alpha, out[2].alpha)
    /\ FLess(out[2].alpha, out[1].alpha)
    /\ out # rows

\* ------------------------------------------------------------------- C13
\* C13 (as stated): to01 returns only 0, 1 or missing; the words 1, true and
\* yes give 1 and the words 0, false and no give 0, whatever their case and
\* the blanks around them; NaN and a string that is no number give missing.
C13_To01ZeroOneOrMissing ==
    spc = "normalized" =>
        /\ norm.missing \/ norm.v \in {0, 1}
        /\ raw.k = "str" /\ Lower(Strip(raw.s)) \in TrueWords => norm = Label(1)
        /\ raw.k = "str" /\ Lower(Strip(raw.s)) \in FalseWords => norm = Label(0)
        /\ raw.k = "nan" => norm = Missing
        /\ raw.k = "str" /\ Lower(Strip(raw.s)) \in {<<"g", "a", "r", "b", "a", "g", "e">>, <<>>}
              => norm = Missing

\* ------------------------------------------------------------------- C14
\* pairs of a gold row and a prediction row of equal text whose labels both
\* normalize
OverlapRows ==
    {p \in (DOMAIN gold) \X (DOMAIN pred) :
        /\ gold[p[1]].text = pred[p[2]].text
        /\ ~to01(gold[p[1]].label).missing
        /\ ~to01(pred[p[2]].model_label).missing}
ScoreMerged == spc \in {"merged", "exited", "scored", "raised", "done"}

\* C14: the merged frame has one row per overlapping pair; when it has none
\* the run can only stop with SystemExit, and has then computed no metric
\* and written nothing; when it has a row the run does not raise SystemExit.
C14_NoOverlapStops ==
    /\ ScoreMerged => Len(merged) = Cardinality(OverlapRows)
    /\ spc = "merged" /\ OverlapRows = {} => ENABLED NoOverlap /\ ~ENABLED Score
    /\ spc = "merged" /\ OverlapRows # {} => ~ENABLED NoOverlap
    /\ spc = "exited" =>
          /\ OverlapRows = {}
          /\ scoreExc = "SystemExit"
          /\ metrics = NoMetrics
          /\ written = <<>>
    /\ ScoreMerged /\ OverlapRows # {} => scoreExc # "SystemExit"
\* the run stopped although the two frames share a text: the shared rows
\* were dropped for a missing label
C14_Witness ==
    /\ spc = "exited"
    /\ scoreExc = "SystemExit"
    /\ \E j \in DOMAIN gold : \E h \in DOMAIN pred : gold[j].text = pred[h].text

\* ------------------------------------------------------------------- C15
ScoreEnded == spc \in {"scored", "raised", "done"}
BinaryLabels == LabelsOf(merged) \subseteq {0, 1}

\* C15 (as stated): for a merged frame that is not empty and has labels in
\* {0, 1}, the run yields tn, fp, fn, tp with tn + fp + fn + tp = N,
\* accuracy (tn + tp)/N, precision tp/(tp + fp) and recall tp/(tp + fn),
\* each of precision, recall and F1 being 0 where its denominator is 0.
C15_MetricsForBinaryRows ==
    ScoreEnded /\ BinaryLabels =>
        /\ scoreExc = "none"
        /\ metrics.tn = Count(merged, 0, 0)
        /\ metrics.fp = Count(merged, 0, 1)
        /\ metrics.fn = Count(merged, 1, 0)
        /\ metrics.tp = Count(merged, 1, 1)
        /\ metrics.tn + metrics.fp + metrics.fn + metrics.tp = Len(merged)
        /\ metrics.acc = Frac(metrics.tn + metrics.tp, Len(merged))
        /\ metrics.prec = IF metrics.tp + metrics.fp = 0 THEN Zero
                          ELSE Frac(metrics.tp, metrics.tp + metrics.fp)
        /\ metrics.rec = IF metrics.tp + metrics.fn = 0 THEN Zero
                         ELSE Frac(metrics.tp, metrics.tp + metrics.fn)
        /\ metrics.f1 = IF 2 * metrics.tp + metrics.fp + metrics.fn = 0 THEN Zero
                        ELSE Frac(2 * metrics.tp, 2 * metrics.tp + metrics.fp + metrics.fn)

\* ------------------------------------------------------------------- C16
\* call_responses has ended on a reply of status 200 with a JSON body
Responded200 ==
    script = "responses" /\ CallEnded /\ r.status_code = 200 /\ r.text.json.json
\* json.loads takes the text
Parseable(c) == c.k \in {"object", "array"}
StrategyResults(d) == <<Strategy1(d), Strategy2(d), Strategy3(d), Strategy4(d)>>
\* the call ended as the text c makes it end
OutcomeOf(c) ==
    /\ c.k = "none" => cpc = "raised" /\ exc.type = "TypeError"
    /\ c.k \in {"empty", "text"} => cpc = "raised" /\ exc.type = "JSONDecodeError"
    /\ c.k = "array" => cpc = "raised" /\ exc.type = "AttributeError"
    /\ WellFormed(c) => cpc = "returned" /\ ret = Normalized(c)
Uses(d, c) == parse_output(d) = Found(c) /\ OutcomeOf(c)

\* C16 (as stated): parse_output returns the text of the first strategy, in
\* the order 1 to 4, whose text json.loads takes, passing over the
\* strategies that find nothing or find a text that does not parse; when no
\* strategy has such a text it raises ValueError.
C16_FirstParseableStrategy ==
    Responded200 =>
        LET d == r.text.json
            res == StrategyResults(d)
            good == {j \in 1..4 : res[j].ok /\ Parseable(res[j].v)}
        IN  IF good # {}
            THEN Uses(d, res[CHOOSE j \in good : \A h \in good : j <= h].v)
            ELSE ~parse_output(d).ok /\ cpc = "raised" /\ exc.type = "ValueError"

\* C16 (amended): parse_output returns the text of the first place, in the
\* order output_text, output.text, output.choices[0].message.content[0].text,
\* output[] message item, that holds a text: a non-empty one for the first
\* two places, any text for the last two.  The text is not parsed: one that
\* is no JSON is returned all the same and ends the call with the error of
\* json.loads.  Only when no place holds a text does it raise ValueError.
C16_FirstFoundStrategy ==
    Responded200 =>
        LET d == r.text.json
            o == d.output
            t1 == d.output_text.has /\ d.output_text.v.k \notin {"none", "empty"}
            t2 == o.t = "dict" /\ o.text.has /\ o.text.v.k \notin {"none", "empty"}
            t3 == /\ o.t = "dict" /\ o.choices.has
                  /\ Len(o.choices.list) >= 1
                  /\ Len(o.choices.list[1]) >= 1
                  /\ o.choices.list[1][1].has_text
            holders == {j \in DOMAIN o.items :
                           /\ o.items[j].type = "message"
                           /\ \E h \in DOMAIN o.items[j].content : o.items[j].content[h].has_text}
            t4 == o.t = "list" /\ holders # {}
            item == o.items[CHOOSE j \in holders : \A h \in holders : j <= h]
            texts == {h \in DOMAIN item.content : item.content[h].has_text}
        IN  IF t1 THEN Uses(d, d.output_text.v)
            ELSE IF t2 THEN Uses(d, o.text.v)
            ELSE IF t3 THEN Uses(d, o.choices.list[1][1].text)
            ELSE IF t4 THEN Uses(d, item.content[CHOOSE h \in texts : \A g \in texts : h <= g].text)
            ELSE ~parse_output(d).ok /\ cpc = "raised" /\ exc.type = "ValueError"
\* output_text holds a text that is no JSON while output.text holds a
\* well-formed object: the call ends with the error of json.loads
C16_Witness ==
    /\ Responded200
    /\ r.text.json = Data(NoList, Field(CText), OutputDict(Field(Good), NoList))
    /\ cpc = "raised"
    /\ exc.type = "JSONDecodeError"

\* ------------------------------------------------------------------- C17
\* number of rows of the table whose two labels differ
Differing(t) == Cardinality({j \in DOMAIN t : t[j][1] # t[j][2]})
\* number of cells of the table holding category c
CellsOf(t, c) ==
    Cardinality({p \in (DOMAIN t) \X {1, 2} : t[p[1]][p[2]].v = c})
\* 1 - sum of p_c^2 with p_c = CellsOf(t, c) / 2n
PooledExpected(t) ==
    LET n2 == 2 * Len(t)
        sq == [c \in {0, 1, 2, 3} |-> CellsOf(t, c) * CellsOf(t, c)]
    IN  Frac(n2 * n2 - SumFn(sq), n2 * n2)

\* C17: on a table of n fully rated items of which d differ, Do_num = 2d
\* and Do_den = 2n, so Do = d/n; De = 1 - sum of p_c^2 over the 2n pooled
\* cells; and when De # 0 the value returned is 1 - Do/De.
C17_ObservedAndExpected ==
    hpc = "computed" =>
        LET n == Len(sub)
            d == Differing(sub)
        IN  /\ DoNum(sub) = 2 * d
            /\ DoDen(sub) = 2 * n
            /\ ObservedDisagreement(sub) = Frac(d, n)
            /\ ExpectedDisagreement(sub) = PooledExpected(sub)
            /\ PooledExpected(sub) # Zero =>
                  alpha = FSub(One, FDiv(Frac(d, n), PooledExpected(sub)))
\* five items with one disagreement: Do = 2/10
C17_Witness ==
    /\ hpc = "computed"
    /\ Len(sub) = 5
    /\ Differing(sub) = 1
    /\ DoNum(sub) = 2
    /\ DoDen(sub) = 10
    /\ CellsOf(sub, 1) = 5
    /\ alpha = Frac(3, 5)

\* ------------------------------------------------------------------- C18
\* C18: on a table of two or more fully rated items the value returned is
\* not NaN and lies between -1 and 1.
C18_AlphaDefinedInRange ==
    hpc = "computed" /\ Len(sub) >= 2 =>
        /\ ~alpha.nan
        /\ -alpha.den <= alpha.num
        /\ alpha.num <= alpha.den
\* every item rated differently, over three categories: alpha is below 0
C18_Witness ==
    /\ hpc = "computed"
    /\ Len(sub) = 3
    /\ Differing(sub) = 3
    /\ CellsOf(sub, 2) >= 1
    /\ ~alpha.nan
    /\ FLess(alpha, Zero)

\* ------------------------------------------------------------------- C19

\* C19: a call with retry limit K sends at most K requests, sends none once
\* it has returned, and ends by returning or raising; with K = 0 it ends
\* raising without having sent a request.
C19_BoundedRequestsAndEnds ==
    /\ [](NumPosts <= max_retries)
    /\ [][CallEnded => events' = events]_vars
    /\ [](cpc = "returned" => statusLog # <<>> /\ statusLog[Len(statusLog)] = 200)
    /\ <>CallEnded
    /\ [](CallEnded /\ max_retries = 0 => cpc = "raised" /\ NumPosts = 0)
\* the retry limit 0: the call raised its RuntimeError, no request sent
C19_Witness ==
    /\ max_retries = 0
    /\ cpc = "raised"
    /\ exc.type = "RuntimeError"
    /\ events = <<>>

====
